---- MODULE Spec2Model ----
(***************************************************************************)
(* A model of data_cleansing.py: the cell cleaner clean_cell, the cleaning *)
(* pipeline clean_dataframe (taken statement by statement) and the upload  *)
(* loop of the Streamlit script.                                           *)
(*                                                                         *)
(* Text is a sequence of one-character strings.  A cell is a record        *)
(* [k, v]: k is "str" (text), "num" (a number, v its canonical numeral),   *)
(* "date" (a timestamp, v its canonical form) or "na" (NaN / pd.NA / NaT). *)
(* A table is [names, dtypes, cols, index]: column labels, column dtypes   *)
(* ("object", "num", "date"), the columns' cells and the row labels.       *)
(***************************************************************************)
EXTENDS Integers, Sequences, FiniteSets

VARIABLES
    cellIn, cellOut,                      \* clean_cell: argument and result
    caller, df, shared, pc,               \* clean_dataframe: caller's frame, local df, aliasing, position
    arg0, typed, out1, pass,              \* what was passed in, the frame entering cleanup, first result, call number
    files, pos, errors, downloads, reads  \* upload loop: files, loop position, st.error / st.download_button calls, files read

cellVars == <<cellIn, cellOut>>
pipeVars == <<caller, df, shared, pc, arg0, typed, out1, pass>>
loopVars == <<files, pos, errors, downloads, reads>>
vars == <<cellIn, cellOut, caller, df, shared, pc, arg0, typed, out1, pass,
          files, pos, errors, downloads, reads>>

(***************************************************************************)
(* Bounds of the model.                                                    *)
(***************************************************************************)
MaxLen == 4        \* longest enumerated cell text handed to clean_cell
MaxCols == 3       \* most columns of a table of the column-name family
MaxRows == 3       \* most rows of a table of the two-column family
MaxColRows == 5    \* most rows of a table of the one-column family
MaxFiles == 2      \* most uploaded files

(***************************************************************************)
(* Text                                                                    *)
(***************************************************************************)
Whitespace == {" ", "\t", "\n"}

UpperSeq == <<"A","B","C","D","E","F","G","H","I","J","K","L","M",
              "N","O","P","Q","R","S","T","U","V","W","X","Y","Z">>
LowerSeq == <<"a","b","c","d","e","f","g","h","i","j","k","l","m",
              "n","o","p","q","r","s","t","u","v","w","x","y","z">>
Digits == {"0","1","2","3","4","5","6","7","8","9"}

Range(f) == {f[i] : i \in DOMAIN f}

\* the characters the pattern [A-Za-z0-9_] accepts
WordChars == Range(UpperSeq) \cup Range(LowerSeq) \cup Digits \cup {"_"}

lower_char(c) ==
    IF \E i \in DOMAIN UpperSeq : UpperSeq[i] = c
    THEN LowerSeq[CHOOSE i \in DOMAIN UpperSeq : UpperSeq[i] = c]
    ELSE c

\* str.lower()
lower(s) == [i \in DOMAIN s |-> lower_char(s[i])]

RECURSIVE lstrip(_)
lstrip(s) ==
    IF s = <<>> THEN s
    ELSE IF Head(s) \in Whitespace THEN lstrip(Tail(s)) ELSE s

RECURSIVE rstrip(_)
rstrip(s) ==
    IF s = <<>> THEN s
    ELSE IF s[Len(s)] \in Whitespace THEN rstrip(SubSeq(s, 1, Len(s) - 1)) ELSE s

\* str.strip()
strip(s) == rstrip(lstrip(s))

\* re.sub(r'\s+', ' ', s): every maximal whitespace run becomes one space
RECURSIVE collapse_ws(_)
collapse_ws(s) ==
    IF s = <<>> THEN <<>>
    ELSE IF Head(s) \in Whitespace
         THEN <<" ">> \o collapse_ws(lstrip(s))
         ELSE <<Head(s)>> \o collapse_ws(Tail(s))

RECURSIVE skip_special(_)
skip_special(s) ==
    IF s = <<>> THEN s
    ELSE IF Head(s) \notin WordChars THEN skip_special(Tail(s)) ELSE s

\* str.replace(r'[^A-Za-z0-9_]+', '_', regex=True) on one label
RECURSIVE replace_special(_)
replace_special(s) ==
    IF s = <<>> THEN <<>>
    ELSE IF Head(s) \notin WordChars
         THEN <<"_">> \o replace_special(skip_special(s))
         ELSE <<Head(s)>> \o replace_special(Tail(s))

(***************************************************************************)
(* Cells and clean_cell                                                    *)
(***************************************************************************)
NA == [k |-> "na", v |-> <<>>]
Str(s) == [k |-> "str", v |-> s]
Num(s) == [k |-> "num", v |-> s]
Date(s) == [k |-> "date", v |-> s]
Pending == [k |-> "pending", v |-> <<>>]

isna(c) == c.k = "na"

Sentinels == {<<"n","u","l","l">>,
              <<"u","n","k","n","o","w","n">>,
              <<"e","r","r","o","r">>}

\* faulty variant: the sentinel test without .lower()
clean_cell_case_sensitive(cell) ==
    IF cell.k = "str"
    THEN LET c == collapse_ws(strip(cell.v))
         IN  IF c \in Sentinels THEN NA ELSE Str(c)
    ELSE cell

clean_cell(cell) ==
    IF cell.k = "str"
    THEN LET c == collapse_ws(strip(cell.v))
         IN  IF lower(c) \in Sentinels THEN NA ELSE Str(c)
    ELSE cell

(***************************************************************************)
(* The two pandas parsers, cell by cell.  The model's grammar of numbers   *)
(* is a non-empty run of digits (value: the numeral without leading        *)
(* zeros); its grammar of dates is month-day "m-d" with non-zero digits,   *)
(* or a four-digit year, which is also a number.                           *)
(***************************************************************************)
is_number_text(s) == s # <<>> /\ \A i \in DOMAIN s : s[i] \in Digits

RECURSIVE canon_num(_)
canon_num(s) == IF Len(s) > 1 /\ Head(s) = "0" THEN canon_num(Tail(s)) ELSE s

is_date_text(s) ==
    \/ Len(s) = 3 /\ s[1] \in Digits \ {"0"} /\ s[2] = "-" /\ s[3] \in Digits \ {"0"}
    \/ Len(s) = 4 /\ s[1] \in {"1", "2"} /\ \A i \in DOMAIN s : s[i] \in Digits

\* pd.to_datetime(..., errors='coerce') on one cell of an object column
to_datetime_cell(c) ==
    IF c.k = "str" /\ is_date_text(c.v)
    THEN Date(IF Len(c.v) = 4 THEN c.v \o <<"-", "1", "-", "1">> ELSE c.v)
    ELSE IF c.k = "date" THEN c ELSE NA

\* what pd.to_numeric makes of one cell whose text is a number
to_numeric_cell(c) == IF c.k = "str" THEN Num(canon_num(c.v)) ELSE c

parses_as_number(c) == c.k = "num" \/ (c.k = "str" /\ is_number_text(c.v))

(***************************************************************************)
(* Tables                                                                  *)
(***************************************************************************)
EmptyTable == [names |-> <<>>, dtypes |-> <<>>, cols |-> <<>>, index |-> <<>>]

NCols(t) == Len(t.names)
NRows(t) == Len(t.index)

\* the positions 1..n where f holds, ascending
RECURSIVE IdxWhere(_, _)
IdxWhere(f, n) ==
    IF n = 0 THEN <<>>
    ELSE IF f[n] THEN Append(IdxWhere(f, n - 1), n) ELSE IdxWhere(f, n - 1)

\* positional column selection (df.loc[:, mask])
TakeCols(t, idx) ==
    [names  |-> [j \in 1..Len(idx) |-> t.names[idx[j]]],
     dtypes |-> [j \in 1..Len(idx) |-> t.dtypes[idx[j]]],
     cols   |-> [j \in 1..Len(idx) |-> t.cols[idx[j]]],
     index  |-> t.index]

\* positional row selection (df[mask])
TakeRows(t, idx) ==
    [names  |-> t.names,
     dtypes |-> t.dtypes,
     cols   |-> [c \in DOMAIN t.cols |-> [j \in 1..Len(idx) |-> t.cols[c][idx[j]]]],
     index  |-> [j \in 1..Len(idx) |-> t.index[idx[j]]]]

\* Series.notna().sum()
notna_sum(col) == Cardinality({i \in DOMAIN col : ~isna(col[i])})

\* DataFrame.empty
is_empty(t) == NCols(t) = 0 \/ NRows(t) = 0

\* the label of column i is carried by another column too
shares_label(t, i) == \E j \in DOMAIN t.names : j # i /\ t.names[j] = t.names[i]

(***************************************************************************)
(* clean_dataframe, statement by statement                                 *)
(***************************************************************************)
\* line 28: df.columns = df.columns.str.strip()
strip_columns(t) == [t EXCEPT !.names = [i \in DOMAIN t.names |-> strip(t.names[i])]]

\* faulty variant: keep the last column of each label
duplicated_keep_last(names) ==
    [i \in DOMAIN names |-> \E j \in (i + 1)..Len(names) : names[j] = names[i]]

\* Index.duplicated(): a label seen at an earlier position
duplicated(names) ==
    [i \in DOMAIN names |-> \E j \in 1..(i - 1) : names[j] = names[i]]

\* line 30: df = df.loc[:, ~df.columns.duplicated()]
drop_duplicate_columns(t) ==
    LET dup == duplicated(t.names)
    IN  TakeCols(t, IdxWhere([i \in DOMAIN t.names |-> ~dup[i]], NCols(t)))

\* line 32: df.columns = df.columns.str.replace(r'[^A-Za-z0-9_]+', '_', regex=True)
replace_columns(t) ==
    [t EXCEPT !.names = [i \in DOMAIN t.names |-> replace_special(t.names[i])]]

\* line 45: df = df.applymap(clean_cell)
applymap(t) ==
    [t EXCEPT !.cols = [c \in DOMAIN t.cols |->
                           [r \in DOMAIN t.cols[c] |-> clean_cell(t.cols[c][r])]]]

\* faulty variant: a strict comparison
passes_date_threshold_strict(non_null_converted, non_null_original) ==
    non_null_original > 0 /\ 10 * non_null_converted > 8 * non_null_original

\* line 53: non_null_original > 0 and (non_null_converted / non_null_original) >= 0.8
passes_date_threshold(non_null_converted, non_null_original) ==
    non_null_original > 0 /\ 10 * non_null_converted >= 8 * non_null_original

to_datetime(col) == [r \in DOMAIN col |-> to_datetime_cell(col[r])]

\* lines 49-54.  df[col] is a DataFrame when the label is shared, and
\* pd.to_datetime of a DataFrame without year/month/day columns raises.
convert_dates(t) ==
    LET object_cols == {i \in DOMAIN t.names : t.dtypes[i] = "object"}
        commit(i)   == /\ i \in object_cols
                       /\ passes_date_threshold(notna_sum(to_datetime(t.cols[i])),
                                                notna_sum(t.cols[i]))
    IN  IF \E i \in object_cols : shares_label(t, i)
        THEN [raised |-> TRUE, t |-> t]
        ELSE [raised |-> FALSE,
              t |-> [t EXCEPT
                       !.cols   = [i \in DOMAIN t.cols |->
                                     IF commit(i) THEN to_datetime(t.cols[i]) ELSE t.cols[i]],
                       !.dtypes = [i \in DOMAIN t.dtypes |->
                                     IF commit(i) THEN "date" ELSE t.dtypes[i]]]]

\* faulty variant: errors='coerce', cell by cell
to_numeric_coerce(col) ==
    [r \in DOMAIN col |-> IF parses_as_number(col[r]) THEN to_numeric_cell(col[r]) ELSE NA]

\* pd.to_numeric(col, errors='ignore'): all of the column or nothing
to_numeric(col) ==
    IF \A r \in DOMAIN col : isna(col[r]) \/ parses_as_number(col[r])
    THEN [r \in DOMAIN col |-> to_numeric_cell(col[r])]
    ELSE col

\* the dtype of what to_numeric returned
numeric_dtype(col, old) ==
    IF \A r \in DOMAIN col : col[r].k \in {"num", "na"} THEN "num" ELSE old

\* lines 57-58.  pd.to_numeric of a DataFrame raises as well.
convert_numeric(t) ==
    LET object_cols == {i \in DOMAIN t.names : t.dtypes[i] = "object"}
        new(i)      == IF i \in object_cols THEN to_numeric(t.cols[i]) ELSE t.cols[i]
    IN  IF \E i \in object_cols : shares_label(t, i)
        THEN [raised |-> TRUE, t |-> t]
        ELSE [raised |-> FALSE,
              t |-> [t EXCEPT
                       !.cols   = [i \in DOMAIN t.cols |-> new(i)],
                       !.dtypes = [i \in DOMAIN t.dtypes |->
                                     IF i \in object_cols
                                     THEN numeric_dtype(new(i), t.dtypes[i])
                                     ELSE t.dtypes[i]]]]

\* faulty variant: how='any'
dropna_columns_any(t) ==
    TakeCols(t, IdxWhere([i \in DOMAIN t.names |->
                             \A r \in DOMAIN t.cols[i] : ~isna(t.cols[i][r])], NCols(t)))

\* line 62: df.dropna(axis=1, how='all', inplace=True)
dropna_columns(t) ==
    TakeCols(t, IdxWhere([i \in DOMAIN t.names |->
                             \E r \in DOMAIN t.cols[i] : ~isna(t.cols[i][r])], NCols(t)))

rows_equal(t, r1, r2) == \A c \in DOMAIN t.cols : t.cols[c][r1] = t.cols[c][r2]

\* line 64: df = df.drop_duplicates(); an empty frame is returned as it is
drop_duplicates(t) ==
    IF is_empty(t) THEN t
    ELSE TakeRows(t, IdxWhere([r \in DOMAIN t.index |->
                                  ~\E q \in 1..(r - 1) : rows_equal(t, q, r)], NRows(t)))

\* faulty variant: how='all'
dropna_rows_all(t) ==
    TakeRows(t, IdxWhere([r \in DOMAIN t.index |->
                             \E c \in DOMAIN t.cols : ~isna(t.cols[c][r])], NRows(t)))

\* line 66: df = df.dropna()
dropna_rows(t) ==
    TakeRows(t, IdxWhere([r \in DOMAIN t.index |->
                             \A c \in DOMAIN t.cols : ~isna(t.cols[c][r])], NRows(t)))

\* lines 60-66 as one function of the typed frame
prune(t) == dropna_rows(drop_duplicates(dropna_columns(t)))

\* clean_dataframe as a function of its argument: the frame returned, or the exception
clean_dataframe(t) ==
    LET named == applymap(replace_columns(drop_duplicate_columns(strip_columns(t))))
        dated == convert_dates(named)
        nums  == convert_numeric(dated.t)
    IN  IF dated.raised \/ nums.raised
        THEN [raised |-> TRUE, t |-> EmptyTable]
        ELSE [raised |-> FALSE, t |-> prune(nums.t)]

(***************************************************************************)
(* The inputs: three families of frames as pd.read_csv / pd.read_excel     *)
(* build them.  Object columns hold text and missing cells, numeric        *)
(* columns hold numbers and missing cells; the row labels are 1..n.        *)
(***************************************************************************)
NamePool == { <<"I","D">>, <<"I","D"," ">>, <<"a"," ","b">>, <<"a","-","b">>, <<" ">> }

DigitOf(i) == <<"0","1","2","3","4","5","6","7","8","9">>[(i % 10) + 1]

\* up to MaxCols columns with labels of NamePool, one row, all numeric or all text
NameTables ==
    { [names  |-> nm,
       dtypes |-> [i \in DOMAIN nm |-> dt],
       cols   |-> [i \in DOMAIN nm |->
                     << IF dt = "num" THEN Num(<<DigitOf(i)>>) ELSE Str(<<"x", DigitOf(i)>>) >>],
       index  |-> <<1>>] :
      nm \in UNION {[1..n -> NamePool] : n \in 1..MaxCols}, dt \in {"num", "object"} }

TextPool == { Str(<<"1">>), Str(<<"x">>), Str(<<" ","N","u","l","l">>), Str(<<"1","-","2">>) }
NumberPool == { NA, Num(<<"1">>) }

\* a text column "a" and a numeric column "b", up to MaxRows rows
CellTables ==
    { [names  |-> << <<"a">>, <<"b">> >>,
       dtypes |-> <<"object", "num">>,
       cols   |-> <<a, b>>,
       index  |-> [r \in DOMAIN a |-> r]] :
      <<a, b>> \in UNION {[1..n -> TextPool] \X [1..n -> NumberPool] : n \in 0..MaxRows} }

DatePool == { Str(<<"1","-","2">>), Str(<<"x">>), Str(<<"e","r","r","o","r"," ">>),
              Str(<<"2","0","2","0">>) }

\* one text column "d", up to MaxColRows rows
ColumnTables ==
    { [names  |-> << <<"d">> >>,
       dtypes |-> <<"object">>,
       cols   |-> <<d>>,
       index  |-> [r \in DOMAIN d |-> r]] :
      d \in UNION {[1..n -> DatePool] : n \in 0..MaxColRows} }

InputTables == NameTables \cup CellTables \cup ColumnTables

(***************************************************************************)
(* The run of clean_dataframe.  caller is the DataFrame object the caller  *)
(* holds, df the object the local name df is bound to; shared says they    *)
(* are one object, so that an assignment through df is seen by the caller. *)
(***************************************************************************)
CellIdle == cellIn = Pending /\ cellOut = Pending
PipeIdle == /\ caller = EmptyTable /\ df = EmptyTable /\ shared = FALSE /\ pc = "idle"
            /\ arg0 = EmptyTable /\ typed = EmptyTable /\ out1 = EmptyTable /\ pass = 0
LoopIdle == files = <<>> /\ pos = 0 /\ errors = <<>> /\ downloads = <<>> /\ reads = <<>>

Init ==
    /\ caller \in InputTables
    /\ df = caller /\ arg0 = caller /\ shared = TRUE
    /\ pc = "L28" /\ pass = 1
    /\ typed = EmptyTable /\ out1 = EmptyTable
    /\ CellIdle /\ LoopIdle

Frame == UNCHANGED <<cellVars, loopVars, arg0, out1, pass>>

\* line 28 assigns the labels of the object the caller passed
StripColumns ==
    /\ pc = "L28"
    /\ df' = strip_columns(df)
    /\ caller' = IF shared THEN df' ELSE caller
    /\ pc' = "L30"
    /\ UNCHANGED <<shared, typed>> /\ Frame

\* line 30 binds df to a new object
DropDuplicateColumns ==
    /\ pc = "L30"
    /\ df' = drop_duplicate_columns(df)
    /\ shared' = FALSE
    /\ pc' = "L32"
    /\ UNCHANGED <<caller, typed>> /\ Frame

ReplaceColumns ==
    /\ pc = "L32"
    /\ df' = replace_columns(df)
    /\ caller' = IF shared THEN df' ELSE caller
    /\ pc' = "L45"
    /\ UNCHANGED <<shared, typed>> /\ Frame

ApplyMap ==
    /\ pc = "L45"
    /\ df' = applymap(df)
    /\ shared' = FALSE
    /\ pc' = "L49"
    /\ UNCHANGED <<caller, typed>> /\ Frame

ConvertDates ==
    /\ pc = "L49"
    /\ LET res == convert_dates(df)
       IN  /\ df' = res.t
           /\ pc' = IF res.raised THEN "raised" ELSE "L57"
    /\ caller' = IF shared THEN df' ELSE caller
    /\ UNCHANGED <<shared, typed>> /\ Frame

ConvertNumeric ==
    /\ pc = "L57"
    /\ LET res == convert_numeric(df)
       IN  /\ df' = res.t
           /\ pc' = IF res.raised THEN "raised" ELSE "L62"
    /\ caller' = IF shared THEN df' ELSE caller
    /\ UNCHANGED <<shared, typed>> /\ Frame

DropEmptyColumns ==
    /\ pc = "L62"
    /\ typed' = df
    /\ df' = dropna_columns(df)
    /\ caller' = IF shared THEN df' ELSE caller
    /\ pc' = "L64"
    /\ UNCHANGED shared /\ Frame

DropDuplicateRows ==
    /\ pc = "L64"
    /\ df' = drop_duplicates(df)
    /\ shared' = FALSE
    /\ pc' = "L66"
    /\ UNCHANGED <<caller, typed>> /\ Frame

DropMissingRows ==
    /\ pc = "L66"
    /\ df' = dropna_rows(df)
    /\ shared' = FALSE
    /\ pc' = "L68"
    /\ UNCHANGED <<caller, typed>> /\ Frame

\* line 68: return df
Return ==
    /\ pc = "L68"
    /\ pc' = "returned"
    /\ out1' = IF pass = 1 THEN df ELSE out1
    /\ UNCHANGED <<cellVars, loopVars, caller, df, shared, arg0, typed, pass>>

\* the caller hands the frame it got back to clean_dataframe again
CallAgain ==
    /\ pc = "returned" /\ pass = 1
    /\ caller' = out1 /\ df' = out1 /\ arg0' = out1 /\ shared' = TRUE
    /\ pass' = 2 /\ pc' = "L28"
    /\ UNCHANGED <<cellVars, loopVars, typed, out1>>

Next ==
    \/ StripColumns \/ DropDuplicateColumns \/ ReplaceColumns \/ ApplyMap
    \/ ConvertDates \/ ConvertNumeric
    \/ DropEmptyColumns \/ DropDuplicateRows \/ DropMissingRows
    \/ Return \/ CallAgain

Spec == Init /\ [][Next]_vars

(***************************************************************************)
(* clean_cell on its own: one call on one cell.                            *)
(***************************************************************************)
CellAlphabet == {"n", "N", "u", "l", " ", "\t"}

Texts(alphabet, n) == UNION {[1..m -> alphabet] : m \in 0..n}

NamedTexts == { <<"N","U","L","L">>, <<"U","n","k","n","o","w","n">>,
                <<" ","e","r","r","o","r"," ">>, <<"n","u","l","l","a","b","l","e">>,
                <<"a"," "," "," ","b","\t"," ","c">> }

CellInputs ==
    {Str(s) : s \in Texts(CellAlphabet, MaxLen) \cup NamedTexts}
        \cup {NA, Num(<<"7">>), Date(<<"1","-","2">>)}

InitCell ==
    /\ cellIn \in CellInputs /\ cellOut = Pending
    /\ PipeIdle /\ LoopIdle

CleanCell ==
    /\ cellOut = Pending
    /\ cellOut' = clean_cell(cellIn)
    /\ UNCHANGED <<cellIn, pipeVars, loopVars>>

NextCell == CleanCell

SpecCell == InitCell /\ [][NextCell]_vars

(***************************************************************************)
(* The upload loop (lines 91-128): one action per way an iteration ends.   *)
(* A file is [name, readable, table]: pd.read_csv / pd.read_excel raise on *)
(* a file that is not readable and return table otherwise.                 *)
(***************************************************************************)
RECURSIVE last_dot(_)
last_dot(s) == IF s = <<>> THEN 0 ELSE IF s[Len(s)] = "." THEN Len(s)
               ELSE last_dot(SubSeq(s, 1, Len(s) - 1))

\* line 95: file_name.split('.')[-1].lower()
extension(file_name) == lower(SubSeq(file_name, last_dot(file_name) + 1, Len(file_name)))

\* line 117: file_name.rsplit('.', 1)[0]
base_name(file_name) ==
    IF last_dot(file_name) = 0 THEN file_name
    ELSE SubSeq(file_name, 1, last_dot(file_name) - 1)

\* line 118: f"clean_{base_name}.csv"
new_file_name(file_name) ==
    <<"c","l","e","a","n","_">> \o base_name(file_name) \o <<".","c","s","v">>

SupportedExtensions == { <<"c","s","v">>, <<"x","l","s","x">>, <<"x","l","s">> }

\* faulty variant: the try statement around the loop instead of inside it
after_exception_abort(i, n) == n + 1

\* lines 127-128: the except clause ends the iteration; the for loop goes on
after_exception(i, n) == i + 1

FileNames == { <<"a",".","c","s","v">>, <<"b",".","X","L","S">>, <<"c",".","t","x","t">> }

GoodTable ==
    [names  |-> << <<"v"," ">> >>, dtypes |-> <<"object">>,
     cols   |-> << <<Str(<<"1">>), Str(<<"n","u","l","l">>)>> >>, index |-> <<1, 2>>]

\* two text columns whose labels collide after line 32: pd.to_datetime raises
RaisingTable ==
    [names  |-> << <<"a"," ","b">>, <<"a","-","b">> >>, dtypes |-> <<"object", "object">>,
     cols   |-> << <<Str(<<"x">>)>>, <<Str(<<"y">>)>> >>, index |-> <<1>>]

FilePool ==
    { [name |-> nm, readable |-> rd.r, table |-> rd.t] :
        nm \in FileNames,
        rd \in { [r |-> FALSE, t |-> EmptyTable], [r |-> TRUE, t |-> GoodTable],
                 [r |-> TRUE, t |-> RaisingTable] } }

InitLoop ==
    /\ files \in UNION {[1..n -> FilePool] : n \in 0..MaxFiles}
    /\ pos = 1 /\ errors = <<>> /\ downloads = <<>> /\ reads = <<>>
    /\ CellIdle /\ PipeIdle

Current == files[pos]
Supported == extension(Current.name) \in SupportedExtensions
Report == [file |-> pos, name |-> Current.name]

\* lines 102-104: st.error and continue
Unsupported ==
    /\ pos <= Len(files) /\ ~Supported
    /\ errors' = Append(errors, Report)
    /\ pos' = pos + 1
    /\ UNCHANGED <<files, downloads, reads, cellVars, pipeVars>>

\* lines 98-101 raise; lines 127-128 report
ReadFails ==
    /\ pos <= Len(files) /\ Supported /\ ~Current.readable
    /\ reads' = Append(reads, [file |-> pos, step |-> "read"])
    /\ errors' = Append(errors, Report)
    /\ pos' = after_exception(pos, Len(files))
    /\ UNCHANGED <<files, downloads, cellVars, pipeVars>>

\* line 110 raises; lines 127-128 report
CleanFails ==
    /\ pos <= Len(files) /\ Supported /\ Current.readable
    /\ clean_dataframe(Current.table).raised
    /\ reads' = reads \o <<[file |-> pos, step |-> "read"], [file |-> pos, step |-> "clean"]>>
    /\ errors' = Append(errors, Report)
    /\ pos' = after_exception(pos, Len(files))
    /\ UNCHANGED <<files, downloads, cellVars, pipeVars>>

\* lines 106-125: the previews and the download button
Download ==
    /\ pos <= Len(files) /\ Supported /\ Current.readable
    /\ ~clean_dataframe(Current.table).raised
    /\ reads' = reads \o <<[file |-> pos, step |-> "read"], [file |-> pos, step |-> "clean"]>>
    /\ downloads' = Append(downloads, [file |-> pos, name |-> Current.name,
                                       file_name |-> new_file_name(Current.name),
                                       data |-> clean_dataframe(Current.table).t])
    /\ pos' = pos + 1
    /\ UNCHANGED <<files, errors, cellVars, pipeVars>>

NextLoop == Unsupported \/ ReadFails \/ CleanFails \/ Download

SpecLoop == InitLoop /\ [][NextLoop]_vars

(***************************************************************************)
(* C5                                                                      *)
(***************************************************************************)
\* what cleaning GoodTable gives: the label stripped, the "null" row gone, "1" a number
CleanedGoodTable ==
    [names |-> << <<"v">> >>, dtypes |-> <<"num">>, cols |-> << <<Num(<<"1">>)>> >>,
     index |-> <<1>>]

Count(seq, i) == Cardinality({k \in DOMAIN seq : seq[k].file = i})

\* C5: when the loop has gone through the files, every file has exactly one
\* outcome, an error report naming it or a download of its cleaned frame; a
\* file that cannot be read or cleaned, or has an unsupported extension, has
\* the error report; and every supported file was read, and cleaned when it
\* could be read, whatever happened to the files before it.
C5_PerFileIsolation ==
    pos = Len(files) + 1 =>
        \A i \in DOMAIN files :
            LET ok == /\ extension(files[i].name) \in SupportedExtensions
                      /\ files[i].readable
                      /\ files[i].table # RaisingTable
            IN  /\ Count(errors, i) + Count(downloads, i) = 1
                /\ Count(downloads, i) = 1 <=> ok
                /\ \A k \in DOMAIN errors : errors[k].file = i => errors[k].name = files[i].name
                /\ \A k \in DOMAIN downloads :
                      downloads[k].file = i =>
                         /\ downloads[k].data = CleanedGoodTable
                         /\ downloads[k].file_name \in
                               { <<"c","l","e","a","n","_","a",".","c","s","v">>,
                                 <<"c","l","e","a","n","_","b",".","c","s","v">> }
                /\ extension(files[i].name) \in SupportedExtensions
                      => [file |-> i, step |-> "read"] \in Range(reads)
                /\ (extension(files[i].name) \in SupportedExtensions /\ files[i].readable)
                      => [file |-> i, step |-> "clean"] \in Range(reads)

C5_Witness ==
    /\ pos = Len(files) + 1 /\ Len(files) = 2
    /\ ~files[1].readable /\ extension(files[1].name) \in SupportedExtensions
    /\ Count(errors, 1) = 1 /\ Count(downloads, 2) = 1

(***************************************************************************)
(* C7                                                                      *)
(***************************************************************************)
\* the whitespace-separated words of a text
RECURSIVE split_ws(_, _)
split_ws(s, cur) ==
    LET done == IF cur = <<>> THEN <<>> ELSE <<cur>>
    IN  IF s = <<>> THEN done
        ELSE IF Head(s) \in Whitespace
             THEN done \o split_ws(Tail(s), <<>>)
             ELSE split_ws(Tail(s), Append(cur, Head(s)))

RECURSIVE join_words(_)
join_words(ws) ==
    IF ws = <<>> THEN <<>>
    ELSE IF Len(ws) = 1 THEN ws[1]
    ELSE ws[1] \o <<" ">> \o join_words(Tail(ws))

Normalized(s) == join_words(split_ws(s, <<>>))

SameIgnoringCase(a, b) ==
    /\ Len(a) = Len(b)
    /\ \A i \in DOMAIN a :
         \/ a[i] = b[i]
         \/ \E k \in DOMAIN UpperSeq : {a[i], b[i]} = {UpperSeq[k], LowerSeq[k]}

IsSentinelText(s) == \E t \in Sentinels : SameIgnoringCase(Normalized(s), t)

\* C7: clean_cell returns missing exactly for the texts that, stripped,
\* whitespace-collapsed and compared without case, are "null", "unknown" or
\* "error"; any other text comes back stripped and collapsed; a cell that is
\* not text comes back as it is.  "NULL", "Unknown" and " error " become
\* missing, "nullable" does not.
C7_CleanCell ==
    cellOut # Pending =>
        /\ cellIn.k = "str" =>
             /\ cellOut = NA <=> IsSentinelText(cellIn.v)
             /\ ~IsSentinelText(cellIn.v) => cellOut = Str(Normalized(cellIn.v))
        /\ cellIn.k # "str" => cellOut = cellIn
        /\ cellIn \in {Str(<<"N","U","L","L">>), Str(<<"U","n","k","n","o","w","n">>),
                       Str(<<" ","e","r","r","o","r"," ">>)} => cellOut = NA
        /\ cellIn = Str(<<"n","u","l","l","a","b","l","e">>) => cellOut = cellIn
        /\ cellIn = Str(<<"a"," "," "," ","b","\t"," ","c">>)
             => cellOut = Str(<<"a"," ","b"," ","c">>)

C7_Witness == cellIn = Str(<<" ","e","r","r","o","r"," ">>) /\ cellOut = NA

(***************************************************************************)
(* C1                                                                      *)
(***************************************************************************)
ValidLabel(s) == s # <<>> /\ \A i \in DOMAIN s : s[i] \in WordChars

Distinct(names) == \A i, j \in DOMAIN names : i # j => names[i] # names[j]

\* C1: the labels of the frame clean_dataframe returns each match
\* ^[A-Za-z0-9_]+$ and are pairwise distinct.
C1_LabelsValidAndDistinct ==
    pc = "returned" =>
        /\ \A i \in DOMAIN df.names : ValidLabel(df.names[i])
        /\ Distinct(df.names)

(***************************************************************************)
(* C2                                                                      *)
(***************************************************************************)
NoRowWithMissingCell(t) ==
    \A r \in DOMAIN t.index : \A c \in DOMAIN t.cols : ~isna(t.cols[c][r])

NoTwoEqualRows(t) ==
    \A q, r \in DOMAIN t.index :
        q # r => \E c \in DOMAIN t.cols : t.cols[c][q] # t.cols[c][r]

\* C2 as stated: the returned frame has no column whose cells are all
\* missing, no row with a missing cell and no two rows equal in every column.
C2_AsStated ==
    pc = "returned" =>
        /\ \A c \in DOMAIN df.cols : ~(\A r \in DOMAIN df.cols[c] : isna(df.cols[c][r]))
        /\ NoRowWithMissingCell(df)
        /\ NoTwoEqualRows(df)

\* C2 amended: the returned frame has no row with a missing cell; a column of
\* it that has a cell is not all missing; when it has a column, no two of its
\* rows are equal in every column.
C2_Pruned ==
    pc = "returned" =>
        /\ NoRowWithMissingCell(df)
        /\ \A c \in DOMAIN df.cols :
             df.cols[c] # <<>> => \E r \in DOMAIN df.cols[c] : ~isna(df.cols[c][r])
        /\ NCols(df) > 0 => NoTwoEqualRows(df)

C2_Witness ==
    /\ pc = "returned" /\ pass = 1
    /\ NRows(df) >= 1 /\ NRows(df) < NRows(typed)
    /\ NCols(df) >= 1 /\ NCols(df) < NCols(typed)

(***************************************************************************)
(* C3                                                                      *)
(***************************************************************************)
RowOf(t, r) == [c \in DOMAIN t.cols |-> t.cols[c][r]]

SameRowMultiset(t, u) ==
    /\ NRows(t) = NRows(u)
    /\ \A r \in DOMAIN t.index :
         Cardinality({q \in DOMAIN t.index : RowOf(t, q) = RowOf(t, r)})
           = Cardinality({q \in DOMAIN u.index : RowOf(u, q) = RowOf(t, r)})

\* C3: clean(clean(t)) has the labels, the row multiset and the column types
\* of clean(t).
C3_Idempotent ==
    pc = "returned" /\ pass = 2 =>
        /\ df.names = out1.names
        /\ df.dtypes = out1.dtypes
        /\ SameRowMultiset(out1, df)

(***************************************************************************)
(* C4                                                                      *)
(***************************************************************************)
\* C4: after the call the frame the caller passed has the labels, the columns
\* and the cells it had before the call.
C4_ArgumentUnchanged == pc = "returned" => caller = arg0

(***************************************************************************)
(* C6                                                                      *)
(***************************************************************************)
ParsedAsDate(col) ==
    Cardinality({r \in DOMAIN col : col[r].k = "str" /\ is_date_text(col[r].v)})

NonMissing(col) == Cardinality({r \in DOMAIN col : col[r].k # "na"})

\* C6: the date loop turns a text column into dates if and only if it has a
\* non-missing cell and at least 4/5 of its non-missing cells parse as dates:
\* 4 of 5 converts, 3 of 5 does not, and a column without a non-missing cell
\* is never converted.
C6_DateThreshold ==
    [][pc = "L49" /\ pc' = "L57" =>
         \A i \in DOMAIN df.names :
            df.dtypes[i] = "object" =>
               LET parsed == ParsedAsDate(df.cols[i])
                   nonMissing == NonMissing(df.cols[i])
               IN  /\ df'.dtypes[i] = "date"
                        <=> (nonMissing > 0 /\ 5 * parsed >= 4 * nonMissing)
                   /\ nonMissing = 5 /\ parsed = 4 => df'.dtypes[i] = "date"
                   /\ nonMissing = 5 /\ parsed = 3 => df'.dtypes[i] = "object"
                   /\ nonMissing = 0 => df'.dtypes[i] = "object"]_vars

C6_Witness ==
    /\ pc = "L57" /\ pass = 1
    /\ NCols(df) = 1 /\ df.dtypes[1] = "date"
    /\ NonMissing(applymap(arg0).cols[1]) = 5
    /\ NonMissing(df.cols[1]) = 4

(***************************************************************************)
(* C8                                                                      *)
(***************************************************************************)
\* the columns that are the leftmost of their stripped label
Leftmost(t) ==
    {i \in DOMAIN t.names :
        \A j \in 1..(i - 1) : strip(t.names[j]) # strip(t.names[i])}

\* C8: after line 30 the frame holds, in their order, exactly the columns of
\* the argument that are the leftmost of their stripped label, each with the
\* cells it had in the argument.
C8_LeftmostKept ==
    pc = "L32" =>
        \E f \in [1..NCols(df) -> 1..NCols(arg0)] :
            /\ \A k \in 1..(NCols(df) - 1) : f[k] < f[k + 1]
            /\ {f[k] : k \in 1..NCols(df)} = Leftmost(arg0)
            /\ \A k \in 1..NCols(df) :
                 /\ df.names[k] = strip(arg0.names[f[k]])
                 /\ df.cols[k] = arg0.cols[f[k]]
                 /\ df.dtypes[k] = arg0.dtypes[f[k]]

C8_Witness ==
    /\ pc = "L32" /\ pass = 1
    /\ arg0.names = << <<"I","D">>, <<"a"," ","b">>, <<"I","D"," ">> >>
    /\ df.names = << <<"I","D">>, <<"a"," ","b">> >>
    /\ df.cols[1] = arg0.cols[1]

(***************************************************************************)
(* C9                                                                      *)
(***************************************************************************)
\* C9: a text column the date loop converts is replaced cell by cell, a cell
\* that does not parse becoming missing, and a column it does not convert is
\* left as it is; the numeric loop makes a text column numeric only if every
\* non-missing cell of it is the text of a number, and otherwise leaves every
\* cell of it unchanged, so that no cell becomes missing there.
C9_Asymmetry ==
    [][/\ pc = "L49" /\ pc' = "L57" =>
            \A i \in DOMAIN df.names :
               IF df.dtypes[i] = "object" /\ df'.dtypes[i] = "date"
               THEN \A r \in DOMAIN df.cols[i] :
                       LET c == df.cols[i][r]
                       IN  IF c.k = "str" /\ is_date_text(c.v)
                           THEN df'.cols[i][r].k = "date"
                           ELSE df'.cols[i][r] = NA
               ELSE df'.cols[i] = df.cols[i] /\ df'.dtypes[i] = df.dtypes[i]
       /\ pc = "L57" /\ pc' = "L62" =>
            \A i \in DOMAIN df.names :
               IF  /\ df.dtypes[i] = "object"
                   /\ \A r \in DOMAIN df.cols[i] :
                        isna(df.cols[i][r]) \/ is_number_text(df.cols[i][r].v)
               THEN /\ df'.dtypes[i] = "num"
                    /\ \A r \in DOMAIN df.cols[i] :
                         df'.cols[i][r].k = (IF isna(df.cols[i][r]) THEN "na" ELSE "num")
               ELSE df'.cols[i] = df.cols[i] /\ df'.dtypes[i] = df.dtypes[i]]_vars

C9_Witness ==
    /\ pc = "L62" /\ pass = 1
    /\ NCols(df) = 1 /\ df.dtypes[1] = "object"
    /\ \E q, r \in DOMAIN df.cols[1] :
          /\ df.cols[1][q] = Str(<<"2","0","2","0">>)
          /\ df.cols[1][r] = Str(<<"x">>)
    /\ df = applymap(arg0)

(***************************************************************************)
(* C10                                                                     *)
(***************************************************************************)
\* the columns of the typed frame that are not entirely missing
Kept(t) == {c \in DOMAIN t.cols : \E r \in DOMAIN t.cols[c] : ~isna(t.cols[c][r])}

\* row r has no missing cell in the kept columns and no earlier row equals it there
Survives(t, r) ==
    /\ \A c \in Kept(t) : ~isna(t.cols[c][r])
    /\ ~\E q \in 1..(r - 1) : \A c \in Kept(t) : t.cols[c][q] = t.cols[c][r]

RowsAre(t, out, rows) ==
    /\ {out.index[j] : j \in DOMAIN out.index} = {t.index[r] : r \in rows}
    /\ \A j \in 1..(NRows(out) - 1) : out.index[j] < out.index[j + 1]
    /\ NCols(out) = Cardinality(Kept(t))
    /\ \A j \in DOMAIN out.index : \A r \in rows :
          out.index[j] = t.index[r] =>
             \A c \in Kept(t) : \E d \in DOMAIN out.cols : out.cols[d][j] = t.cols[c][r]
    /\ NRows(out) <= NRows(t) /\ NCols(out) <= NCols(t)

\* C10 as stated: a row of the typed frame is in the result exactly when it
\* has no missing cell in a column that is not entirely missing and no earlier
\* row equals it in those columns; the rows keep their order; the result has
\* no more rows and columns than the typed frame.
C10_AsStated ==
    pc = "L68" =>
        RowsAre(typed, df, {r \in DOMAIN typed.index : Survives(typed, r)})

\* C10 amended: as stated when some column of the typed frame is not entirely
\* missing; when every column is entirely missing, the result has no column
\* and every row of the typed frame.
C10_Pruner ==
    pc = "L68" =>
        IF Kept(typed) # {}
        THEN RowsAre(typed, df, {r \in DOMAIN typed.index : Survives(typed, r)})
        ELSE RowsAre(typed, df, DOMAIN typed.index)

C10_Witness ==
    /\ pc = "L68" /\ pass = 1
    /\ NCols(typed) = 2 /\ Cardinality(Kept(typed)) = 1
    /\ NRows(typed) = 3 /\ NRows(df) = 1
    /\ \E r \in DOMAIN typed.index : \E c \in Kept(typed) : isna(typed.cols[c][r])

====
